---- MODULE Spec2Model ----
(***************************************************************************)
(* Model of src/src/services/queryService.ts: the retry wrapper, the two   *)
(* NodeCache instances (result cache and message dedup cache) and the      *)
(* queryEmbeddings pipeline, one action per stretch of code between two    *)
(* awaits.  Strings are sequences of one-character strings, so that key    *)
(* construction (template literals, JSON.stringify) is real concatenation. *)
(***************************************************************************)
EXTENDS Integers, Sequences, FiniteSets, TLC

(* ------------------------------------------------------------------ *)
(* Bounds of the model and constants of the program                    *)
(* ------------------------------------------------------------------ *)
MaxTurns == 2
MaxTicks == 2
MaxRetriesArg == 4
MaxHits == 3
MaxScore == 3
MaxLastCalls == 2

cacheStdTTL == 3600
cacheMaxKeys == 1000
messageStdTTL == 300
messageMaxKeys == 10000
lastConversationTTL == 86400
defaultMaxRetries == 3
backoffBaseMs == 1000
defaultTopK == 5

(* ------------------------------------------------------------------ *)
(* JavaScript values                                                    *)
(* ------------------------------------------------------------------ *)
Undefined == [t |-> "undefined"]
Null == [t |-> "null"]
JsStr(s) == [t |-> "string", v |-> s]
JsBool(b) == [t |-> "boolean", v |-> b]
JsNum(n) == [t |-> "number", v |-> n]
JsError(e) == [t |-> "error", v |-> e]
JsNaN == [t |-> "NaN"]
JsInfinity == [t |-> "Infinity"]

\* JavaScript truthiness, as used by `if (messageId && ...)`, `if (cachedResult)`,
\* `if (options.enableAPIQuery)` and the intent test.
Truthy(x) ==
  CASE x.t = "undefined" -> FALSE
    [] x.t = "null" -> FALSE
    [] x.t = "NaN" -> FALSE
    [] x.t = "string" -> Len(x.v) > 0
    [] x.t = "boolean" -> x.v
    [] x.t = "number" -> x.v # 0
    [] OTHER -> TRUE

\* options.<name> on an options object given as its list of <<name, value>>
\* members in insertion order.
Prop(options, name) ==
  IF \E k \in 1..Len(options) : options[k][1] = name
    THEN options[CHOOSE k \in 1..Len(options) : options[k][1] = name][2]
    ELSE Undefined

RECURSIVE Escape(_)
Escape(s) ==
  IF s = <<>> THEN <<>>
  ELSE (IF Head(s) = "\"" THEN <<"\\", "\"">>
        ELSE IF Head(s) = "\\" THEN <<"\\", "\\">>
        ELSE <<Head(s)>>) \o Escape(Tail(s))

Quote(s) == <<"\"">> \o Escape(s) \o <<"\"">>

Digit(d) ==
  CASE d = 0 -> "0" [] d = 1 -> "1" [] d = 2 -> "2" [] d = 3 -> "3" [] d = 4 -> "4"
    [] d = 5 -> "5" [] d = 6 -> "6" [] d = 7 -> "7" [] d = 8 -> "8" [] OTHER -> "9"

RECURSIVE Digits(_)
Digits(n) == IF n < 10 THEN <<Digit(n)>> ELSE Digits(n \div 10) \o <<Digit(n % 10)>>

StringifyValue(x) ==
  CASE x.t = "string" -> Quote(x.v)
    [] x.t = "boolean" -> IF x.v THEN <<"t", "r", "u", "e">> ELSE <<"f", "a", "l", "s", "e">>
    [] x.t = "number" -> Digits(x.v)
    [] OTHER -> <<"n", "u", "l", "l">>   \* null, NaN, Infinity

\* The members JSON.stringify writes: a member whose value is undefined is left out.
RECURSIVE Members(_, _)
Members(options, first) ==
  IF options = <<>> THEN <<>>
  ELSE IF Head(options)[2].t = "undefined" THEN Members(Tail(options), first)
  ELSE (IF first THEN <<>> ELSE <<",">>)
       \o Quote(Head(options)[1]) \o <<":">> \o StringifyValue(Head(options)[2])
       \o Members(Tail(options), FALSE)

\* JSON.stringify(options)
Stringify(options) == <<"{">> \o Members(options, TRUE) \o <<"}">>

\* `${query}:${JSON.stringify(options)}`
cacheKey(query, options) == query \o <<":">> \o Stringify(options)

(* ------------------------------------------------------------------ *)
(* NodeCache: a store is a function key -> [v, t], t the expiry time.   *)
(* `others` counts the keys a store holds besides the ones the model    *)
(* tracks (entries of other queries, other users, other messages).      *)
(* ------------------------------------------------------------------ *)
Expired(store, key, time) == store[key].t < time

\* Mutant of NodeCacheGet: the expiry time is not looked at.
NodeCacheGetNoExpiry(store, key, time) ==
  IF key \in DOMAIN store THEN store[key].v ELSE Undefined

\* NodeCache.get: the value of a key that is present and not expired.
NodeCacheGet(store, key, time) ==
  IF key \in DOMAIN store /\ ~Expired(store, key, time) THEN store[key].v ELSE Undefined

\* Mutant of NodeCacheAfterGet: a read restarts the time to live of the entry.
NodeCacheAfterGetTouch(store, key, time) ==
  IF key \in DOMAIN store
    THEN IF Expired(store, key, time)
           THEN [k \in DOMAIN store \ {key} |-> store[k]]
           ELSE [store EXCEPT ![key].t = time + cacheStdTTL]
    ELSE store

\* NodeCache.get deletes the entry it finds expired (deleteOnExpire).
NodeCacheAfterGet(store, key, time) ==
  IF key \in DOMAIN store /\ Expired(store, key, time)
    THEN [k \in DOMAIN store \ {key} |-> store[k]]
    ELSE store

\* NodeCache.set throws ECACHEFULL when the store already holds maxKeys keys.
NodeCacheFull(store, others, maxKeys) == Cardinality(DOMAIN store) + others >= maxKeys

\* Mutant of NodeCacheSet: a key that is present keeps its entry.
NodeCacheSetIfAbsent(store, key, value, ttl, time) ==
  [k \in DOMAIN store \cup {key} |->
     IF k = key /\ k \notin DOMAIN store THEN [v |-> value, t |-> time + ttl] ELSE store[k]]

\* NodeCache.set: the entry of the key is replaced and its time to live restarts.
NodeCacheSet(store, key, value, ttl, time) ==
  [k \in DOMAIN store \cup {key} |->
     IF k = key THEN [v |-> value, t |-> time + ttl] ELSE store[k]]

(* ------------------------------------------------------------------ *)
(* retry(fn, maxRetries): the loop as a record stepped at each await.   *)
(*   st: "calling" (fn invoked, awaiting it), "sleeping" (in setTimeout),*)
(*       "returned" (val is the result), "thrown" (val is the error)     *)
(*   calls, waits, caught: how often fn was invoked, the delays given to *)
(*       setTimeout, the errors caught so far                            *)
(* ------------------------------------------------------------------ *)
RECURSIVE Pow2(_)
Pow2(n) == IF n = 0 THEN 1 ELSE 2 * Pow2(n - 1)

NoRetry ==
  [i |-> 0, maxRetries |-> 0, calls |-> 0, waits |-> <<>>, caught |-> <<>>,
   st |-> "none", val |-> Undefined]

\* Mutant of RetryStart: fn() is invoked before the loop test (a do-while loop).
RetryStartDoWhile(maxRetries) ==
  [i |-> 0, maxRetries |-> maxRetries, calls |-> 1, waits |-> <<>>,
   caught |-> <<>>, st |-> "calling", val |-> Undefined]

\* Entry of retry: the loop test `i < maxRetries` at i = 0, then the first fn().
RetryStart(maxRetries) ==
  IF 0 < maxRetries
    THEN [i |-> 0, maxRetries |-> maxRetries, calls |-> 1, waits |-> <<>>,
          caught |-> <<>>, st |-> "calling", val |-> Undefined]
    ELSE [i |-> 0, maxRetries |-> maxRetries, calls |-> 0, waits |-> <<>>,
          caught |-> <<>>, st |-> "returned", val |-> Undefined]

\* Mutant of RetrySettle: the last failure is swallowed, retry resolves undefined.
RetrySettleSwallow(r, ok, val) ==
  IF ok THEN [r EXCEPT !.st = "returned", !.val = val]
  ELSE IF r.i = r.maxRetries - 1
    THEN [r EXCEPT !.st = "returned", !.val = Undefined, !.caught = Append(@, val)]
  ELSE [r EXCEPT !.st = "sleeping", !.val = Undefined, !.caught = Append(@, val),
                 !.waits = Append(@, backoffBaseMs * Pow2(r.i))]

\* Mutant of RetrySettle: the exhaustion test is off by one (i === maxRetries - 2).
RetrySettleOneShort(r, ok, val) ==
  IF ok THEN [r EXCEPT !.st = "returned", !.val = val]
  ELSE IF r.i >= r.maxRetries - 2
    THEN [r EXCEPT !.st = "thrown", !.val = val, !.caught = Append(@, val)]
  ELSE [r EXCEPT !.st = "sleeping", !.val = Undefined, !.caught = Append(@, val),
                 !.waits = Append(@, backoffBaseMs * Pow2(r.i))]

\* fn() settled: `return await fn()` or the catch block.
RetrySettle(r, ok, val) ==
  IF ok THEN [r EXCEPT !.st = "returned", !.val = val]
  ELSE IF r.i = r.maxRetries - 1
    THEN [r EXCEPT !.st = "thrown", !.val = val, !.caught = Append(@, val)]
  ELSE [r EXCEPT !.st = "sleeping", !.val = Undefined, !.caught = Append(@, val),
                 !.waits = Append(@, backoffBaseMs * Pow2(r.i))]

\* Mutant of RetryWake: the loop goes round without i++.
RetryWakeNoAdvance(r) ==
  IF r.i < r.maxRetries
    THEN [r EXCEPT !.calls = @ + 1, !.st = "calling", !.val = Undefined]
    ELSE [r EXCEPT !.st = "returned", !.val = Undefined]

\* The timer fired: i++, the loop test, the next fn().
RetryWake(r) ==
  IF r.i + 1 < r.maxRetries
    THEN [r EXCEPT !.i = @ + 1, !.calls = @ + 1, !.st = "calling", !.val = Undefined]
    ELSE [r EXCEPT !.i = @ + 1, !.st = "returned", !.val = Undefined]

(* ------------------------------------------------------------------ *)
(* Inputs and collaborator outcomes                                     *)
(* ------------------------------------------------------------------ *)
nMessageId == <<"m", "e", "s", "s", "a", "g", "e", "I", "d">>
nEnableAPIQuery == <<"e", "n", "a", "b", "l", "e", "A", "P", "I", "Q", "u", "e", "r", "y">>
nUserId == <<"u", "s", "e", "r", "I", "d">>

Queries == { <<"h", "i">> }

OptionSets ==
  { <<>>,
    << <<nMessageId, JsStr(<<"m">>)>> >>,
    << <<nEnableAPIQuery, JsBool(TRUE)>>, <<nMessageId, JsStr(<<>>)>> >> }

\* A query that reads like the key prefix of line 336, with options whose
\* messageIds differ.
LastQueries ==
  { <<"l", "a", "s", "t", "C", "o", "n", "v", "e", "r", "s", "a", "t", "i", "o", "n">> }

LastOptionSets ==
  { << <<nMessageId, JsStr(<<"m">>)>> >>,
    << <<nEnableAPIQuery, JsBool(TRUE)>>, <<nMessageId, JsStr(<<"n">>)>> >> }

\* userId strings: a plain one, and one whose text is {"messageId":"m"}.
UserIds ==
  { <<"u">>,
    <<"{", "\"", "m", "e", "s", "s", "a", "g", "e", "I", "d", "\"", ":",
      "\"", "m", "\"", "}">> }

\* The `conversation` values a caller stores.
Conversations == { [t |-> "conversation", v |-> 1], [t |-> "conversation", v |-> 2] }

\* What JSON.parse of the classifier's content can yield.
Intents ==
  { << <<"isGreeting", JsBool(TRUE)>>, <<"hasQuestion", JsBool(FALSE)>>,
       <<"needsSupport", JsBool(FALSE)>>, <<"topic", JsStr(<<"n">>)>> >>,
    << <<"isGreeting", JsBool(TRUE)>>, <<"hasQuestion", JsBool(TRUE)>>,
       <<"needsSupport", JsBool(FALSE)>>, <<"topic", JsStr(<<"n">>)>> >>,
    << <<"isGreeting", JsBool(TRUE)>> >> }

\* completion.choices[0].message.content: some text, or none at all
Contents == { JsStr(<<"A">>), JsStr(<<>>) }

\* The weighted contexts of a turn (vector search, then weightContextRelevance).
ContextLists == { <<"doc">> }

MockAPIResponse == <<"Mock API response">>

\* The rejection of a collaborator call.
CollaboratorError == JsError("E1")

\* What a stand-alone fn can reject with.
Errors == { JsError("E1"), JsError("E2") }

Calls == {1, 2}
SeqCalls == {1}

QueryResponse(matches, apiResults, answer) ==
  [t |-> "object", matches |-> matches, apiResults |-> apiResults, answer |-> answer]

(* ------------------------------------------------------------------ *)
(* State                                                                *)
(* ------------------------------------------------------------------ *)
VARIABLES
  now,            \* Date.now(), in seconds
  ticks,          \* how often the clock has advanced
  cache,          \* const cache = new NodeCache({ stdTTL: 3600, maxKeys: 1000 })
  messageCache,   \* const messageCache = new NodeCache({ stdTTL: 300, maxKeys: 10000 })
  memory,         \* per user: how many turns saveContext has recorded
  call,           \* per call slot: the position and locals of one queryEmbeddings call
  turns,          \* calls started so far
  hist,           \* per input: the last response returned for it, and when
  rh,             \* a stand-alone retry(fn, maxRetries) run
  probe           \* a stand-alone call of a synchronous function: arguments, result

vars == <<now, ticks, cache, messageCache, memory, call,
          turns, hist, rh, probe>>

pipeVars == <<now, ticks, cache, messageCache, memory, call,
              turns, hist>>

Inputs == (Queries \cup LastQueries) \X (OptionSets \cup LastOptionSets)

NoHist == [t |-> 0, ret |-> Undefined]

NoProbe == [fn |-> "none"]

IdleCall ==
  [pc |-> "idle", query |-> <<>>, options |-> <<>>, rt |-> NoRetry,
   intent |-> <<>>, contexts |-> <<>>, apiResults |-> <<>>, answer |-> Undefined,
   ret |-> Undefined, path |-> "none", failedAt |-> "none",
   completions |-> 0, saves |-> 0, searches |-> 0, enrichments |-> 0, memReads |-> 0,
   cacheWrites |-> 0, messageWrites |-> 0,
   markedSeen |-> FALSE, priorDup |-> FALSE, priorSame |-> Undefined]

Terminal == {"done", "suppressed", "failed"}

InitPipe ==
  /\ now = 0
  /\ ticks = 0
  /\ cache = <<>>
  /\ messageCache = <<>>
  /\ memory = <<>>
  /\ call = [c \in Calls |-> IdleCall]
  /\ turns = 0
  /\ hist = [in \in Inputs |-> NoHist]
  /\ rh = NoRetry

Init ==
  /\ InitPipe
  /\ probe = NoProbe

\* Ghost bookkeeping: a call returned `ret` for its input.
Returned(c, ret) ==
  IF ret.t = "object"
    THEN [hist EXCEPT ![<<call[c].query, call[c].options>>] = [t |-> now, ret |-> ret]]
    ELSE hist

(* ------------------------------------------------------------------ *)
(* queryEmbeddings, one action per stretch of code between two awaits   *)
(* ------------------------------------------------------------------ *)
\* The call rejects: the error of the stage it was in propagates to the caller.
Fail(r) == [r EXCEPT !.pc = "failed", !.failedAt = r.pc]

\* The caller's view when the call starts (ghost): the messageId is a key of the
\* dedup cache whose entry has not expired.
MarkedSeen(options) ==
  /\ Prop(options, nMessageId).t = "string"
  /\ Prop(options, nMessageId).v \in DOMAIN messageCache
  /\ messageCache[Prop(options, nMessageId).v].t >= now

\* The caller's view when the call starts (ghost): did a call with this messageId
\* return a response within the dedup TTL, and what did an identical call return
\* within the result-cache TTL.
PriorDup(options) ==
  /\ Prop(options, nMessageId).t # "undefined"
  /\ \E in \in Inputs :
       /\ hist[in].ret.t = "object"
       /\ Prop(in[2], nMessageId) = Prop(options, nMessageId)
       /\ now - hist[in].t <= messageStdTTL

PriorSame(query, options) ==
  IF hist[<<query, options>>].ret.t = "object" /\ now - hist[<<query, options>>].t <= cacheStdTTL
    THEN hist[<<query, options>>].ret
    ELSE Undefined

\* Lines 221-236: dedup check, cache check, first embedQuery attempt.
Start(c, query, options) ==
  /\ call[c].pc \in Terminal \cup {"idle"}
  /\ \A b \in Calls : b < c => call[b].pc \notin Terminal \cup {"idle"}
  /\ turns < MaxTurns
  /\ turns' = turns + 1
  /\ LET messageId == Prop(options, nMessageId)
         key == cacheKey(query, options)
         cachedResult == NodeCacheGet(cache, key, now)
         fresh == [IdleCall EXCEPT !.query = query, !.options = options,
                                   !.markedSeen = MarkedSeen(options),
                                   !.priorDup = PriorDup(options),
                                   !.priorSame = PriorSame(query, options)]
     IN IF Truthy(messageId) /\ Truthy(NodeCacheGet(messageCache, messageId.v, now))
          THEN /\ call' = [call EXCEPT ![c] = [fresh EXCEPT !.pc = "suppressed", !.ret = Null]]
               /\ UNCHANGED <<cache, messageCache, hist>>
          ELSE /\ messageCache' = IF Truthy(messageId)
                                    THEN NodeCacheAfterGet(messageCache, messageId.v, now)
                                    ELSE messageCache
               /\ cache' = NodeCacheAfterGet(cache, key, now)
               /\ IF Truthy(cachedResult)
                    THEN /\ call' = [call EXCEPT ![c] =
                                       [fresh EXCEPT !.pc = "done", !.ret = cachedResult,
                                                     !.path = "cacheHit"]]
                         /\ hist' = IF cachedResult.t = "object"
                                      THEN [hist EXCEPT ![<<query, options>>] =
                                              [t |-> now, ret |-> cachedResult]]
                                      ELSE hist
                    ELSE /\ call' = [call EXCEPT ![c] =
                                       [fresh EXCEPT !.pc = "embed",
                                                     !.rt = RetryStart(defaultMaxRetries)]]
                         /\ UNCHANGED hist
  /\ UNCHANGED <<now, ticks, memory, rh, probe>>

\* Line 57: a backoff timer of one of the three retry sites fires.
BackoffElapsed(c) ==
  /\ call[c].pc \in {"embed", "greeting", "generate"}
  /\ call[c].rt.st = "sleeping"
  /\ call' = [call EXCEPT ![c] =
       [@ EXCEPT !.rt = RetryWake(@),
                 !.completions = IF call[c].pc = "embed" THEN @ ELSE @ + 1]]
  /\ UNCHANGED <<now, ticks, cache, messageCache, memory,
                 turns, hist, rh, probe>>

\* Lines 236-237: an embedQuery attempt settles; on success analyzeUserIntent is called.
EmbedSettled(c, ok) ==
  /\ call[c].pc = "embed"
  /\ call[c].rt.st = "calling"
  /\ LET r == RetrySettle(call[c].rt, ok, IF ok THEN Undefined ELSE CollaboratorError)
     IN call' = [call EXCEPT ![c] =
          IF r.st = "returned" THEN [@ EXCEPT !.rt = NoRetry, !.pc = "classify"]
          ELSE IF r.st = "thrown" THEN Fail([@ EXCEPT !.rt = r])
          ELSE [@ EXCEPT !.rt = r]]
  /\ UNCHANGED <<now, ticks, cache, messageCache, memory,
                 turns, hist, rh, probe>>

\* Mutant of IsPureGreeting: hasQuestion is not tested.
IsPureGreetingLoose(intent) ==
  /\ Truthy(Prop(intent, "isGreeting"))
  /\ ~Truthy(Prop(intent, "needsSupport"))

\* Line 240
IsPureGreeting(intent) ==
  /\ Truthy(Prop(intent, "isGreeting"))
  /\ ~Truthy(Prop(intent, "hasQuestion"))
  /\ ~Truthy(Prop(intent, "needsSupport"))

\* Lines 237-241 and 264: analyzeUserIntent settles; the branch on the intent.
ClassifySettled(c, ok, intent) ==
  /\ call[c].pc = "classify"
  /\ call' = [call EXCEPT ![c] =
       IF ~ok THEN Fail(@)
       ELSE IF IsPureGreeting(intent)
         THEN [@ EXCEPT !.intent = intent, !.pc = "greeting", !.path = "greeting",
                        !.rt = RetryStart(defaultMaxRetries), !.completions = @ + 1]
         ELSE [@ EXCEPT !.intent = intent, !.pc = "vectorStore", !.path = "retrieval",
                        !.searches = @ + 1]]
  /\ UNCHANGED <<now, ticks, cache, messageCache, memory,
                 turns, hist, rh, probe>>

\* Lines 241-261: a greeting completion attempt settles; on success the response
\* is returned.
GreetingSettled(c, ok, content) ==
  /\ call[c].pc = "greeting"
  /\ call[c].rt.st = "calling"
  /\ LET r == RetrySettle(call[c].rt, ok, IF ok THEN content ELSE CollaboratorError)
         result == QueryResponse(<<>>, <<>>, r.val)
     IN /\ call' = [call EXCEPT ![c] =
             IF r.st = "returned"
               THEN [@ EXCEPT !.rt = NoRetry, !.pc = "done", !.answer = r.val,
                              !.ret = result]
             ELSE IF r.st = "thrown" THEN Fail([@ EXCEPT !.rt = r])
             ELSE [@ EXCEPT !.rt = r]]
        /\ hist' = IF r.st = "returned" THEN Returned(c, result) ELSE hist
  /\ UNCHANGED <<now, ticks, cache, messageCache, memory,
                 turns, rh, probe>>

\* Lines 264-284: queryVectorStore settles, contexts are weighted, then either the
\* enrichment call or getMemory is awaited.
VectorStoreSettled(c, ok, contexts) ==
  /\ call[c].pc = "vectorStore"
  /\ call' = [call EXCEPT ![c] =
       IF ~ok THEN Fail(@)
       ELSE IF Truthy(Prop(call[c].options, nEnableAPIQuery))
         THEN [@ EXCEPT !.contexts = contexts, !.pc = "enrich", !.enrichments = @ + 1]
         ELSE [@ EXCEPT !.contexts = contexts, !.pc = "getMemory", !.memReads = @ + 1]]
  /\ UNCHANGED <<now, ticks, cache, messageCache, memory,
                 turns, hist, rh, probe>>

\* Lines 281-284: `apiResults = await queryExternalAPI(...)`, with no catch around
\* it.  The body of queryExternalAPI is a placeholder for an API call ("Implement
\* API call logic here"); ok = FALSE is that call rejecting.
EnrichSettled(c, ok) ==
  /\ call[c].pc = "enrich"
  /\ call' = [call EXCEPT ![c] =
       IF ~ok THEN Fail(@)
       ELSE [@ EXCEPT !.apiResults = MockAPIResponse, !.pc = "getMemory",
                      !.memReads = @ + 1]]
  /\ UNCHANGED <<now, ticks, cache, messageCache, memory,
                 turns, hist, rh, probe>>

\* Lines 284-286: getMemory, loadMemoryVariables and summarizeChatHistory settle in turn.
MemorySettled(c, ok) ==
  /\ call[c].pc \in {"getMemory", "loadMemory", "summarize"}
  /\ call' = [call EXCEPT ![c] =
       IF ~ok THEN Fail(@)
       ELSE IF call[c].pc = "getMemory" THEN [@ EXCEPT !.pc = "loadMemory"]
       ELSE IF call[c].pc = "loadMemory" THEN [@ EXCEPT !.pc = "summarize"]
       ELSE [@ EXCEPT !.pc = "generate", !.rt = RetryStart(defaultMaxRetries),
                      !.completions = @ + 1]]
  /\ UNCHANGED <<now, ticks, cache, messageCache, memory,
                 turns, hist, rh, probe>>

\* Lines 301-319: an answer completion attempt settles; on success saveContext is called.
GenerateSettled(c, ok, content) ==
  /\ call[c].pc = "generate"
  /\ call[c].rt.st = "calling"
  /\ LET r == RetrySettle(call[c].rt, ok, IF ok THEN content ELSE CollaboratorError)
     IN call' = [call EXCEPT ![c] =
          IF r.st = "returned"
            THEN [@ EXCEPT !.rt = NoRetry, !.pc = "saveContext", !.answer = r.val,
                           !.saves = @ + 1]
          ELSE IF r.st = "thrown" THEN Fail([@ EXCEPT !.rt = r])
          ELSE [@ EXCEPT !.rt = r]]
  /\ UNCHANGED <<now, ticks, cache, messageCache, memory,
                 turns, hist, rh, probe>>

\* How many untracked keys a store of maxKeys holds besides the tracked ones: as
\* many as fill it, or none.
OtherKeys(store, maxKeys, filled) ==
  IF filled THEN maxKeys - Cardinality(DOMAIN store) ELSE 0

\* memory.saveContext({ input }, { output }) on the memory of options.userId: one
\* more turn is on record for that user.
SaveContext(mem, userId) ==
  [u \in DOMAIN mem \cup {userId} |->
     IF u = userId THEN (IF u \in DOMAIN mem THEN mem[u] ELSE 0) + 1 ELSE mem[u]]

\* Lines 319-332: saveContext settles; the result is built, the messageId is marked
\* seen, the result is cached and returned.  Either set can throw ECACHEFULL.
SaveContextSettled(c, ok, cacheFilled, messagesFilled) ==
  /\ call[c].pc = "saveContext"
  /\ LET cacheOthers == OtherKeys(cache, cacheMaxKeys, cacheFilled)
         messageOthers == OtherKeys(messageCache, messageMaxKeys, messagesFilled)
         messageId == Prop(call[c].options, nMessageId)
         key == cacheKey(call[c].query, call[c].options)
         result == QueryResponse(call[c].contexts, call[c].apiResults, call[c].answer)
         markFull == Truthy(messageId) /\ NodeCacheFull(messageCache, messageOthers, messageMaxKeys)
         storeFull == NodeCacheFull(cache, cacheOthers, cacheMaxKeys)
     IN IF ~ok
          THEN /\ call' = [call EXCEPT ![c] = Fail(@)]
               /\ UNCHANGED <<cache, messageCache, memory, hist>>
          ELSE /\ memory' = SaveContext(memory, Prop(call[c].options, nUserId))
               /\ messageCache' = IF Truthy(messageId) /\ ~markFull
                                    THEN NodeCacheSet(messageCache, messageId.v, JsBool(TRUE),
                                                      messageStdTTL, now)
                                    ELSE messageCache
               /\ cache' = IF ~markFull /\ ~storeFull
                             THEN NodeCacheSet(cache, key, result, cacheStdTTL, now)
                             ELSE cache
               /\ call' = [call EXCEPT ![c] =
                    IF markFull THEN Fail(@)
                    ELSE IF storeFull
                      THEN Fail([@ EXCEPT !.messageWrites = IF Truthy(messageId) THEN @ + 1 ELSE @])
                    ELSE [@ EXCEPT !.pc = "done", !.ret = result,
                                   !.messageWrites = IF Truthy(messageId) THEN @ + 1 ELSE @,
                                   !.cacheWrites = @ + 1]]
               /\ hist' = IF ~markFull /\ ~storeFull THEN Returned(c, result) ELSE hist
  /\ UNCHANGED <<now, ticks, turns, rh, probe>>

(* ------------------------------------------------------------------ *)
(* Environment                                                          *)
(* ------------------------------------------------------------------ *)
TickSteps == {messageStdTTL, cacheStdTTL}

\* Time passes.  A ghost entry too old to matter to any claim is dropped.
Tick(d) ==
  /\ ticks < MaxTicks
  /\ ticks' = ticks + 1
  /\ now' = now + d
  /\ hist' = [in \in Inputs |->
               IF now' - hist[in].t > cacheStdTTL THEN NoHist ELSE hist[in]]
  /\ UNCHANGED <<cache, messageCache, memory, call, turns, rh, probe>>

\* The call in slot c goes on from an await.
Advance(c) ==
  \/ BackoffElapsed(c)
  \/ \E ok \in BOOLEAN : EmbedSettled(c, ok)
  \/ \E ok \in BOOLEAN, intent \in Intents : ClassifySettled(c, ok, intent)
  \/ \E ok \in BOOLEAN, content \in Contents : GreetingSettled(c, ok, content)
  \/ \E ok \in BOOLEAN, contexts \in ContextLists : VectorStoreSettled(c, ok, contexts)
  \/ \E ok \in BOOLEAN : EnrichSettled(c, ok)
  \/ \E ok \in BOOLEAN : MemorySettled(c, ok)
  \/ \E ok \in BOOLEAN, content \in Contents : GenerateSettled(c, ok, content)
  \/ \E ok \in BOOLEAN, cf \in BOOLEAN, mf \in BOOLEAN : SaveContextSettled(c, ok, cf, mf)

\* Calls made one after the other, with time passing.
Next ==
  \/ \E c \in SeqCalls, q \in Queries, o \in OptionSets : Start(c, q, o)
  \/ \E c \in SeqCalls : Advance(c)
  \/ \E d \in TickSteps : Tick(d)

Spec == Init /\ [][Next]_vars

\* Lines 221-236 for a caller that makes one call per slot.
StartOnce(c, query, options) ==
  /\ call[c].pc = "idle"
  /\ Start(c, query, options)

\* Two calls that overlap in time: the second slot is entered while the first is
\* in flight, and each slot carries one call.
NextOverlap ==
  \/ \E c \in Calls, q \in Queries, o \in OptionSets : StartOnce(c, q, o)
  \/ \E c \in Calls : Advance(c)

SpecOverlap == Init /\ [][NextOverlap]_vars

\* Overlapping calls whose collaborators always settle and whose timers always fire.
SpecFair == Init /\ [][NextOverlap]_vars /\ \A c \in Calls : WF_vars(Advance(c))

(* ------------------------------------------------------------------ *)
(* getLastConversation / setLastConversation beside queryEmbeddings     *)
(*   probe.last: per userId, what setLastConversation last stored (ghost)*)
(*   probe.got, probe.want: what the last getLastConversation returned,  *)
(*   and the stored value still within its time to live (ghost)          *)
(* ------------------------------------------------------------------ *)
\* `lastConversation:${userId}`
lastConversationKey(userId) ==
  <<"l", "a", "s", "t", "C", "o", "n", "v", "e", "r", "s", "a", "t", "i", "o", "n", ":">>
    \o userId

NoStored == [v |-> Undefined, t |-> 0]

InitLast ==
  /\ InitPipe
  /\ probe = [fn |-> "lastConversation", st |-> "none", calls |-> 0,
              last |-> [u \in UserIds |-> NoStored],
              userId |-> <<>>, got |-> Undefined, want |-> Undefined]

\* Lines 339-341: cache.set(key, conversation, 86400), which throws when the cache
\* is full.
SetLastConversation(userId, conversation, cacheFilled) ==
  /\ probe.fn = "lastConversation"
  /\ probe.calls < MaxLastCalls
  /\ LET storeFull == NodeCacheFull(cache, OtherKeys(cache, cacheMaxKeys, cacheFilled),
                                    cacheMaxKeys)
     IN IF storeFull
          THEN /\ probe' = [probe EXCEPT !.calls = @ + 1, !.st = "thrown"]
               /\ UNCHANGED cache
          ELSE /\ cache' = NodeCacheSet(cache, lastConversationKey(userId), conversation,
                                        lastConversationTTL, now)
               /\ probe' = [probe EXCEPT !.calls = @ + 1, !.st = "set",
                                         !.last[userId] = [v |-> conversation, t |-> now]]
  /\ UNCHANGED <<now, ticks, messageCache, memory, call, turns, hist, rh>>

\* Lines 335-337: cache.get(key).
GetLastConversation(userId) ==
  /\ probe.fn = "lastConversation"
  /\ probe.calls < MaxLastCalls
  /\ cache' = NodeCacheAfterGet(cache, lastConversationKey(userId), now)
  /\ probe' = [probe EXCEPT
       !.calls = @ + 1, !.st = "got", !.userId = userId,
       !.got = NodeCacheGet(cache, lastConversationKey(userId), now),
       !.want = IF probe.last[userId].v.t # "undefined"
                     /\ now - probe.last[userId].t <= lastConversationTTL
                  THEN probe.last[userId].v ELSE Undefined]
  /\ UNCHANGED <<now, ticks, messageCache, memory, call, turns, hist, rh>>

LastTickSteps == {cacheStdTTL, lastConversationTTL}

\* One call of queryEmbeddings among calls of the two accessors.
NextLast ==
  \/ \E c \in SeqCalls, q \in LastQueries, o \in LastOptionSets : StartOnce(c, q, o)
  \/ \E c \in SeqCalls : Advance(c)
  \/ \E d \in LastTickSteps : Tick(d)
  \/ \E u \in UserIds, v \in Conversations, cf \in BOOLEAN : SetLastConversation(u, v, cf)
  \/ \E u \in UserIds : GetLastConversation(u)

SpecLast == InitLast /\ [][NextLast]_vars

(* ------------------------------------------------------------------ *)
(* retry(fn, maxRetries) on its own, fn settling either way             *)
(* ------------------------------------------------------------------ *)
\* Line 51: retry is called.
RetryCalled(maxRetries) ==
  /\ rh.st = "none"
  /\ rh' = RetryStart(maxRetries)
  /\ UNCHANGED <<pipeVars, probe>>

\* Lines 54-57: fn() settles.
RetryFnSettled(ok, val) ==
  /\ rh.st = "calling"
  /\ rh' = RetrySettle(rh, ok, val)
  /\ UNCHANGED <<pipeVars, probe>>

\* Line 57: the timer fires.
RetryTimerFired ==
  /\ rh.st = "sleeping"
  /\ rh' = RetryWake(rh)
  /\ UNCHANGED <<pipeVars, probe>>

\* The maxRetries a caller passes: any number, negative ones too.
RetryArgs == -1..MaxRetriesArg

NextRetry ==
  \/ \E m \in RetryArgs : RetryCalled(m)
  \/ \E content \in Contents : RetryFnSettled(TRUE, content)
  \/ \E e \in Errors : RetryFnSettled(FALSE, e)
  \/ RetryTimerFired

SpecRetry == Init /\ [][NextRetry]_vars

(* ------------------------------------------------------------------ *)
(* queryVectorStore, storeName 'mongodb' (lines 136-168)                *)
(* A hit is [id, score]; id tells hits of equal score apart.            *)
(* ------------------------------------------------------------------ *)
Min(a, b) == IF a <= b THEN a ELSE b

\* Line 138: options.topK || 5
EffectiveTopK(topK) == IF Truthy(topK) THEN topK.v ELSE defaultTopK

\* Line 157: [...docsResults].filter((_, index) => index <= topK), index from 0.
FilterByIndex(docs, topK) == SubSeq(docs, 1, Min(Len(docs), topK + 1))

\* Array.prototype.sort with (a, b) => b.score - a.score: stable, descending.
RECURSIVE InsertByScore(_, _)
InsertByScore(sorted, hit) ==
  IF sorted = <<>> THEN <<hit>>
  ELSE IF Head(sorted).score >= hit.score
    THEN <<Head(sorted)>> \o InsertByScore(Tail(sorted), hit)
    ELSE <<hit>> \o sorted

RECURSIVE SortByScore(_)
SortByScore(hits) ==
  IF hits = <<>> THEN <<>>
  ELSE InsertByScore(SortByScore(SubSeq(hits, 1, Len(hits) - 1)), hits[Len(hits)])

\* .slice(0, topK)
Slice(hits, topK) == SubSeq(hits, 1, Min(Len(hits), topK))

\* Lines 157-167: the matches returned for the hits of the docs collection.
MongoMatches(docsResults, topKOption) ==
  LET topK == EffectiveTopK(topKOption)
      allResults == FilterByIndex(docsResults, topK)
      topResults == Slice(SortByScore(allResults), topK)
  IN topResults

\* What the sub-collection query can return: hits in any order of score.
HitLists ==
  UNION { { [k \in 1..n |-> [id |-> k, score |-> f[k]]] : f \in [1..n -> 1..MaxScore] }
          : n \in 0..MaxHits }

TopKOptions == { Undefined, JsNum(1), JsNum(2) }

InitTopK ==
  /\ InitPipe
  /\ probe \in { [fn |-> "queryVectorStore", st |-> "called", docs |-> d, topK |-> k,
                  matches |-> <<>>] : d \in HitLists, k \in TopKOptions }

\* queryVectorStore({ storeName: 'mongodb', queryVector, options }) returns.
QueryVectorStoreReturns ==
  /\ probe.fn = "queryVectorStore"
  /\ probe.st = "called"
  /\ probe' = [probe EXCEPT !.st = "returned",
                            !.matches = MongoMatches(probe.docs, probe.topK)]
  /\ UNCHANGED <<pipeVars, rh>>

NextTopK == QueryVectorStoreReturns

SpecTopK == InitTopK /\ [][NextTopK]_vars

(* ------------------------------------------------------------------ *)
(* The cache key of line 229, for two calls side by side                *)
(* ------------------------------------------------------------------ *)
nTopK == <<"t", "o", "p", "K">>
nLanguage == <<"l", "a", "n", "g", "u", "a", "g", "e">>

KeyQueries == { <<"h", "i">>, <<"h", "i", ":">> }

KeyOptionSets ==
  { <<>>,
    << <<nUserId, Undefined>> >>,
    << <<nMessageId, JsStr(<<"m">>)>> >>,
    << <<nTopK, JsNum(5)>> >>,
    << <<nTopK, JsNaN>> >>,
    << <<nTopK, JsInfinity>> >>,
    << <<nTopK, JsNum(5)>>, <<nLanguage, JsStr(<<"e", "n">>)>> >>,
    << <<nLanguage, JsStr(<<"e", "n">>)>>, <<nTopK, JsNum(5)>> >> }

KeyInputs == KeyQueries \X KeyOptionSets

InitKey ==
  /\ InitPipe
  /\ probe \in { [fn |-> "cacheKey", st |-> "called", a |-> a, b |-> b,
                  keyA |-> <<>>, keyB |-> <<>>] : a \in KeyInputs, b \in KeyInputs }

\* Line 229 in each of the two calls.
CacheKeysBuilt ==
  /\ probe.fn = "cacheKey"
  /\ probe.st = "called"
  /\ probe' = [probe EXCEPT !.st = "returned",
                            !.keyA = cacheKey(probe.a[1], probe.a[2]),
                            !.keyB = cacheKey(probe.b[1], probe.b[2])]
  /\ UNCHANGED <<pipeVars, rh>>

NextKey == CacheKeysBuilt

SpecKey == InitKey /\ [][NextKey]_vars

(* ------------------------------------------------------------------ *)
(* Claims                                                               *)
(* ------------------------------------------------------------------ *)
Started(c) == call[c].pc # "idle"

HasMessageId(c) == Truthy(Prop(call[c].options, nMessageId))

\* C1: a call whose messageId was carried by a call that returned a response within
\* the dedup TTL returns null and saves nothing to memory, whichever path the
\* first call took.
C1_SecondCallSuppressed ==
  \A c \in Calls :
    Started(c) /\ call[c].priorDup =>
      /\ call[c].pc = "suppressed"
      /\ call[c].ret = Null
      /\ call[c].saves = 0

\* C2: among the overlapping calls that carry one messageId, at most one issues an
\* answer completion call and at most one executes saveContext.
C2_AtMostOneProcessed ==
  \A c \in Calls, b \in Calls :
    /\ c # b
    /\ Started(c) /\ Started(b)
    /\ HasMessageId(c)
    /\ Prop(call[c].options, nMessageId) = Prop(call[b].options, nMessageId)
    => /\ ~(call[c].completions > 0 /\ call[b].completions > 0)
       /\ ~(call[c].saves > 0 /\ call[b].saves > 0)

\* C3: a call identical in (query, options) to one that returned a response within
\* the result-cache TTL returns that same response and issues no completion call.
C3_IdenticalCallIdempotent ==
  \A c \in Calls :
    Started(c) /\ call[c].priorSame.t = "object" =>
      /\ call[c].pc = "done"
      /\ call[c].ret = call[c].priorSame
      /\ call[c].completions = 0

\* C4: a turn that ends Done after generating an answer, on either branch, has
\* written its response to the result cache and, given a messageId, has marked it
\* seen.
C4_CacheStoreBeforeDone ==
  \A c \in Calls :
    call[c].pc = "done" /\ call[c].path \in {"greeting", "retrieval"} =>
      /\ call[c].cacheWrites = 1
      /\ NodeCacheGet(cache, cacheKey(call[c].query, call[c].options), now) = call[c].ret
      /\ HasMessageId(c) => call[c].messageWrites = 1

\* C5: a turn that ends Failed has written neither cache and returned no response.
C5_FailedWritesNothing ==
  \A c \in Calls :
    call[c].pc = "failed" =>
      /\ call[c].cacheWrites = 0
      /\ call[c].messageWrites = 0
      /\ call[c].ret = Undefined

\* C6: saveContext is executed at most once per turn and only with the answer a
\* successful generation returned; a turn whose generation failed after its
\* retries executed none.
C6_SaveOnlyAfterGeneration ==
  \A c \in Calls :
    /\ call[c].saves <= 1
    /\ call[c].saves > 0 =>
         /\ call[c].answer.t = "string"
         /\ call[c].completions > 0
         /\ call[c].pc \in {"saveContext", "done", "failed"}
    /\ call[c].pc \in {"embed", "classify", "greeting", "vectorStore", "enrich",
                       "getMemory", "loadMemory", "summarize", "generate"}
         => call[c].saves = 0
    /\ call[c].failedAt = "generate" => call[c].saves = 0

C6_Witness ==
  \E c \in Calls :
    /\ call[c].failedAt = "generate"
    /\ call[c].rt.calls = defaultMaxRetries
    /\ call[c].saves = 0

C8_GreetingBranchPure ==
  \A c \in Calls :
    call[c].intent # <<>> =>
      /\ call[c].path = "greeting" <=>
           /\ Prop(call[c].intent, "isGreeting") = JsBool(TRUE)
           /\ Prop(call[c].intent, "hasQuestion") = JsBool(FALSE)
           /\ Prop(call[c].intent, "needsSupport") = JsBool(FALSE)
      /\ call[c].path = "greeting" =>
           /\ call[c].searches = 0
           /\ call[c].enrichments = 0
           /\ call[c].memReads = 0
           /\ call[c].saves = 0
           /\ call[c].pc = "done" =>
                /\ call[c].ret.matches = <<>>
                /\ call[c].ret.apiResults = <<>>

C8_Witness ==
  \E c \in Calls :
    /\ call[c].pc = "done"
    /\ call[c].path = "greeting"
    /\ Truthy(Prop(call[c].options, nEnableAPIQuery))
    /\ call[c].ret.matches = <<>>

\* C9: retry of an operation that fails at every attempt invokes it exactly
\* maxRetries times, waits 1000 * 2^i ms after failure i (1 s, 2 s, 4 s, ...) and
\* throws the error of the last attempt.
C9_RetryExhaustion ==
  /\ rh.st \in {"returned", "thrown"}
  /\ rh.maxRetries >= 1
  /\ Len(rh.caught) = rh.calls
  => /\ rh.st = "thrown"
     /\ rh.calls = rh.maxRetries
     /\ rh.waits = [k \in 1..(rh.maxRetries - 1) |-> 1000 * Pow2(k - 1)]
     /\ rh.val = rh.caught[rh.maxRetries]

C9_Witness ==
  /\ rh.st = "thrown"
  /\ rh.maxRetries = 3
  /\ rh.waits = <<1000, 2000>>
  /\ rh.caught = <<JsError("E1"), JsError("E1"), JsError("E2")>>
  /\ rh.val = JsError("E2")

C11_GlobalTopK ==
  probe.fn = "queryVectorStore" /\ probe.st = "returned" /\ Truthy(probe.topK) =>
    LET out == probe.matches
        kept == { out[k].id : k \in 1..Len(out) }
    IN /\ Len(out) <= probe.topK.v
       /\ Len(out) = Min(Len(probe.docs), probe.topK.v)
       /\ \A k \in 1..Len(out) : out[k] = probe.docs[out[k].id]
       /\ \A k \in 1..(Len(out) - 1) : out[k].score >= out[k + 1].score
       /\ \A k \in 1..Len(out), j \in 1..Len(probe.docs) :
            j \notin kept => out[k].score >= probe.docs[j].score

\* C12: every response a call returns has a non-empty answer.
C12_AnswerNonEmpty ==
  \A c \in Calls :
    call[c].ret.t = "object" =>
      /\ call[c].ret.answer.t = "string"
      /\ Len(call[c].ret.answer.v) > 0

\* The members of an options object, by name.
MemberNames(options) == { options[k][1] : k \in 1..Len(options) }

\* Two options objects give every option the same value.
SameOptions(o1, o2) ==
  \A n \in MemberNames(o1) \cup MemberNames(o2) : Prop(o1, n) = Prop(o2, n)

\* C13: two calls have the same cache key exactly when they have the same query
\* text and the same options.
C13_KeyCollisionFree ==
  probe.fn = "cacheKey" /\ probe.st = "returned" =>
    (probe.keyA = probe.keyB
       <=> probe.a[1] = probe.b[1] /\ SameOptions(probe.a[2], probe.b[2]))

\* The slot the next call starts in.
StartSlot(c) ==
  /\ call[c].pc \in Terminal \cup {"idle"}
  /\ \A b \in Calls : b < c => call[b].pc \notin Terminal \cup {"idle"}

\* A store holds no entry it did not hold, and has lost only expired ones.
OnlyPurged(before, after, time) ==
  /\ \A k \in DOMAIN after : k \in DOMAIN before /\ after[k] = before[k]
  /\ \A k \in DOMAIN before \ DOMAIN after : Expired(before, k, time)

\* C14: a call that is not suppressed and finds an unexpired entry under its key
\* ends done with the cached value, makes no collaborator call, leaves the result
\* cache and the memory as they were, and leaves every live dedup entry as it was.
C14_CacheHitPureRead ==
  [][\A c \in Calls :
       LET r == call'[c]
           messageId == Prop(r.options, nMessageId)
           cachedResult == NodeCacheGet(cache, cacheKey(r.query, r.options), now)
       IN (/\ turns' = turns + 1
           /\ StartSlot(c)
           /\ ~(Truthy(messageId) /\ Truthy(NodeCacheGet(messageCache, messageId.v, now)))
           /\ Truthy(cachedResult))
          => /\ r.pc = "done"
             /\ r.ret = cachedResult
             /\ r.rt = NoRetry
             /\ r.completions = 0 /\ r.searches = 0 /\ r.enrichments = 0
             /\ r.memReads = 0 /\ r.saves = 0
             /\ r.cacheWrites = 0 /\ r.messageWrites = 0
             /\ cache' = cache
             /\ OnlyPurged(messageCache, messageCache', now)
             /\ memory' = memory]_vars

C14_Witness ==
  \E c \in Calls :
    /\ call[c].pc = "done"
    /\ call[c].path = "cacheHit"
    /\ call[c].ret.t = "object"
    /\ Truthy(Prop(call[c].options, nMessageId))
    /\ cacheKey(call[c].query, call[c].options) \in DOMAIN cache

\* The four-field structure the classifier is asked for (lines 189-193).
FourFields(intent) ==
  /\ Len(intent) = 4
  /\ Prop(intent, "isGreeting").t = "boolean"
  /\ Prop(intent, "hasQuestion").t = "boolean"
  /\ Prop(intent, "needsSupport").t = "boolean"
  /\ Prop(intent, "topic").t = "string"

\* C15: a call whose classifier output parsed to something other than the
\* four-field structure has failed, and has made no completion call, no vector
\* search, no saveContext and no cache or dedup write.
C15_MalformedIntentFatal ==
  \A c \in Calls :
    (call[c].intent # <<>> /\ ~FourFields(call[c].intent)) =>
      /\ call[c].pc = "failed"
      /\ call[c].failedAt = "classify"
      /\ call[c].completions = 0
      /\ call[c].searches = 0
      /\ call[c].saves = 0
      /\ call[c].cacheWrites = 0
      /\ call[c].messageWrites = 0

\* How many turns are on record for a user.
Recorded(mem, userId) == IF userId \in DOMAIN mem THEN mem[userId] ELSE 0

\* C16: nothing coalesces identical calls in flight: every call that completes the
\* retrieval branch has put one more turn on its user's record, and when it
\* returns the result cache holds its response under its key, whatever another
\* call wrote there before.
C16_NoSingleFlight ==
  [][\A c \in Calls :
       (call[c].pc = "saveContext" /\ call'[c].pc = "done") =>
         LET key == cacheKey(call[c].query, call[c].options)
             userId == Prop(call[c].options, nUserId)
         IN /\ key \in DOMAIN cache'
            /\ cache'[key].v = call'[c].ret
            /\ call'[c].completions >= 1
            /\ Recorded(memory', userId) = Recorded(memory, userId) + 1]_vars

\* Two overlapping identical calls without a messageId both ran the whole pipeline.
C16_Witness ==
  /\ call[1].pc = "done" /\ call[2].pc = "done"
  /\ call[1].path = "retrieval" /\ call[2].path = "retrieval"
  /\ call[1].query = call[2].query
  /\ call[1].options = call[2].options
  /\ Prop(call[1].options, nMessageId).t = "undefined"
  /\ call[1].completions >= 1 /\ call[2].completions >= 1
  /\ Recorded(memory, Prop(call[1].options, nUserId)) = 2
  /\ call[1].ret # call[2].ret
  /\ cache[cacheKey(call[1].query, call[1].options)].v \in {call[1].ret, call[2].ret}

\* The order of the stages in the text of queryEmbeddings.
StageRank(pc) ==
  CASE pc = "idle" -> 0
    [] pc = "embed" -> 1
    [] pc = "classify" -> 2
    [] pc = "greeting" -> 3
    [] pc = "vectorStore" -> 3
    [] pc = "enrich" -> 4
    [] pc = "getMemory" -> 5
    [] pc = "loadMemory" -> 6
    [] pc = "summarize" -> 7
    [] pc = "generate" -> 8
    [] pc = "saveContext" -> 9
    [] OTHER -> 10

\* C17: with collaborators that settle and timers that fire, every started call
\* reaches done, suppressed or failed and stays there; a retry loop invokes its fn
\* at most 3 times; and a call never goes back to an earlier stage.
C17_Terminates ==
  /\ \A c \in Calls : Started(c) ~> (call[c].pc \in Terminal)
  /\ [](\A c \in Calls : call[c].rt.calls <= defaultMaxRetries)
  /\ [][\A c \in Calls :
          /\ StageRank(call'[c].pc) >= StageRank(call[c].pc)
          /\ call[c].pc \in Terminal => call'[c].pc = call[c].pc]_vars

\* A call that failed after three generation attempts, beside one that is done.
C17_Witness ==
  \E c, d \in Calls :
    /\ call[c].pc = "failed"
    /\ call[c].failedAt = "generate"
    /\ call[c].rt.calls = defaultMaxRetries
    /\ call[d].pc = "done"

\* C18: a call that carries a messageId and is answered from the result cache is
\* answered with the response an earlier call of the same query and options (so
\* the same messageId) returned, and that messageId has no dedup entry left.
C18_HitOnlyFromSameMessage ==
  [][\A c \in Calls :
       LET r == call'[c]
           in == <<r.query, r.options>>
           messageId == Prop(r.options, nMessageId)
       IN (/\ turns' = turns + 1
           /\ StartSlot(c)
           /\ r.path = "cacheHit"
           /\ Truthy(messageId))
          => /\ hist[in].ret.t = "object"
             /\ r.ret = hist[in].ret
             /\ messageId.v \notin DOMAIN messageCache'
             /\ \A other \in Inputs :
                  cacheKey(other[1], other[2]) = cacheKey(r.query, r.options)
                    => Prop(other[2], nMessageId) = messageId]_vars

\* C19: getLastConversation returns what setLastConversation last stored for the
\* userId within 86400 s, and nothing else; queryEmbeddings never returns a stored
\* conversation; and the entry under a userId's key is never anything but what
\* setLastConversation stored there.
C19_LastConversationRoundTrip ==
  probe.fn = "lastConversation" =>
    /\ probe.got = probe.want
    /\ \A c \in Calls : call[c].pc = "done" => call[c].ret.t = "object"
    /\ \A u \in UserIds :
         lastConversationKey(u) \in DOMAIN cache
           => cache[lastConversationKey(u)].v = probe.last[u].v

\* C20: retry has slept once after each caught error but the last one of an
\* exhausted run, for 1000 * 2^(k-1) ms after the k-th; it returns the result of
\* the first attempt that succeeds, having invoked fn once per caught error and
\* once more; and for maxRetries <= 0 it resolves undefined without invoking fn.
C20_AttemptAccounting ==
  /\ \A k \in 1..Len(rh.waits) : rh.waits[k] = backoffBaseMs * Pow2(k - 1)
  /\ rh.st = "calling" => rh.calls = Len(rh.caught) + 1 /\ Len(rh.waits) = Len(rh.caught)
  /\ rh.st = "sleeping" =>
       /\ rh.calls = Len(rh.caught) /\ Len(rh.waits) = Len(rh.caught)
       /\ rh.calls < rh.maxRetries
  /\ rh.st = "thrown" => rh.calls = Len(rh.caught) /\ Len(rh.waits) = rh.calls - 1
  /\ rh.st = "returned" /\ rh.maxRetries >= 1 =>
       /\ rh.calls = Len(rh.caught) + 1
       /\ rh.calls <= rh.maxRetries
       /\ Len(rh.waits) = Len(rh.caught)
       /\ rh.val \in Contents
  /\ rh.st # "none" /\ rh.maxRetries <= 0 =>
       /\ rh.st = "returned"
       /\ rh.calls = 0
       /\ rh.val = Undefined
       /\ rh.waits = <<>> /\ rh.caught = <<>>

\* The second attempt of three succeeded, after one wait of 1000 ms.
C20_Witness ==
  /\ rh.st = "returned"
  /\ rh.maxRetries = defaultMaxRetries
  /\ rh.calls = 2
  /\ rh.waits = <<backoffBaseMs>>
  /\ rh.caught = <<JsError("E2")>>
  /\ rh.val = JsStr(<<"A">>)

====
